---- MODULE Spec2Model ----
(***************************************************************************)
(* Population table (borrowed view, owned table, row iterator) and the     *)
(* option-flag sets of tskit-rust.                                         *)
(*                                                                         *)
(* src/src/population_table.rs : make_population_table_row, the two        *)
(*   Iterator impls, PopulationTable::{num_rows, metadata, iter, row},     *)
(*   OwnedPopulationTable::{add_row, add_row_with_metadata}.               *)
(* src/src/flags.rs : the bitflags! types, From<RawFlags> for NodeFlags    *)
(*   and IndividualFlags, NodeFlags::{new_sample, is_valid, is_sample}.    *)
(*                                                                         *)
(* The macros population_table_add_row!, metadata_to_vector!,              *)
(* table_row_access!, build_owned_table_type! and the table_iterator       *)
(* module are not part of the two files; they are modelled after           *)
(* spec.md sections 3, 4.2-4.5 and 6 (columnar storage: one metadata byte  *)
(* column plus one offset per row).                                        *)
(***************************************************************************)
EXTENDS Integers, Sequences, FiniteSets, TLC

\* ------------------------------------------------------------- bounds
\* Largest number of rows an owned table is grown to.
MaxRows == 2
\* Metadata values are 0..MaxMeta.
MaxMeta == 3
\* Width of the signed row id / iterator cursor (tsk_id_t, 32 in the build).
IdBits == 3
\* Width of RawFlags (32 in the build).
FlagBits == 8
\* Largest number of operands recorded for one flag value.
MaxOperands == 3

VARIABLES
    num_rows,         \* tsk_population_table_t.num_rows
    metadata,         \* tsk_population_table_t.metadata (byte column)
    metadata_offset,  \* tsk_population_table_t.metadata_offset
    log,              \* history: what each live row was inserted with
    cleared,          \* history: clear has been called
    ret,              \* result of the last call on the owned table
    iters,            \* the table iterators (TableIterator {table, pos})
    overflow_checks,  \* build profile: does `+=` panic on overflow
    panicked,         \* the thread has panicked
    fobj,             \* the flag value under construction
    operands,         \* history: the operands that went into fobj
    raw               \* the RawFlags last converted with From

tvars == <<num_rows, metadata, metadata_offset, log, cleared, ret, iters,
           overflow_checks, panicked>>
fvars == <<fobj, operands, raw>>
vars == <<num_rows, metadata, metadata_offset, log, cleared, ret, iters,
          overflow_checks, panicked, fobj, operands, raw>>

\* ------------------------------------------------------------- values
None == [some |-> FALSE]
Some(v) == [some |-> TRUE, val |-> v]
Ok(v) == [ok |-> TRUE, val |-> v]
Err == [ok |-> FALSE]

Pow2(n) == IF n = 0 THEN 1 ELSE 2 ^ n
TskIdMax == Pow2(IdBits - 1) - 1
TskIdMin == 0 - Pow2(IdBits - 1)
TskId == TskIdMin .. TskIdMax

MetaValues == 0 .. MaxMeta
Iters == {1, 2}

\* ------------------------------------------------------------- codec
\* A codec that honours the round-trip contract on every value it encodes:
\* value m is written as m bytes m (0 as zero bytes), MaxMeta does not encode.
Encode(m) == IF m = MaxMeta THEN Err ELSE Ok([i \in 1 .. m |-> m])

Decode(bytes) ==
    IF \E m \in MetaValues : Encode(m).ok /\ Encode(m).val = bytes
    THEN Ok(CHOOSE m \in MetaValues : Encode(m).ok /\ Encode(m).val = bytes)
    ELSE Err

\* ------------------------------------------------------------- view
NumRows == num_rows

\* metadata_to_vector!(table, table_ref, row): the byte range of the row in
\* the metadata column; absent for a row out of range and for an absent
\* (zero-length) range.
metadata_to_vector(row) ==
    IF row < 0 \/ row >= num_rows THEN None
    ELSE LET start == metadata_offset[row + 1]
             stop == metadata_offset[row + 2]
         IN  IF start >= stop THEN None
             ELSE Some(SubSeq(metadata, start + 1, stop))

table_row_decode_metadata(pos) == metadata_to_vector(pos)

\* `i <= table.num_rows()` for `i < table.num_rows()`.
make_population_table_row_inclusive(pos) ==
    IF pos < 0 THEN None
    ELSE IF pos <= NumRows
         THEN Some([id |-> pos, metadata |-> table_row_decode_metadata(pos)])
         ELSE None

\* The match on the index is left out.
make_population_table_row_unbounded(pos) ==
    IF pos < 0 THEN None
    ELSE Some([id |-> pos, metadata |-> table_row_decode_metadata(pos)])

\* The metadata is read at the position after the row's.
make_population_table_row_next_metadata(pos) ==
    IF pos < 0 THEN None
    ELSE IF pos < NumRows
         THEN Some([id |-> pos,
                    metadata |-> table_row_decode_metadata(pos + 1)])
         ELSE None

make_population_table_row(pos) ==
    IF pos < 0 THEN None                       \* try_from(pos).ok()?
    ELSE IF pos < NumRows
         THEN Some([id |-> pos, metadata |-> table_row_decode_metadata(pos)])
         ELSE None

\* table_row_access!(ri, self, make_population_table_row)
row(r) == make_population_table_row(r)

\* An absent buffer is decoded as an empty one instead of returned with `?`.
metadata_T_decode_absent(r) ==
    LET buffer == metadata_to_vector(r)
    IN  IF ~buffer.some THEN Some(Decode(<<>>)) ELSE Some(Decode(buffer.val))

\* PopulationTable::metadata::<T>(row)
metadata_T(r) ==
    LET buffer == metadata_to_vector(r)
    IN  IF ~buffer.some THEN None ELSE Some(Decode(buffer.val))

\* ------------------------------------------------------------- table
DeadIter == [live |-> FALSE, pos |-> 0, out |-> <<>>, exhausted |-> FALSE,
             last |-> None]
FreshIter == [live |-> TRUE, pos |-> 0, out |-> <<>>, exhausted |-> FALSE,
              last |-> None]

NoBorrow == \A i \in Iters : ~iters[i].live

\* Every row of the table as the view reads it.
AllRows == [k \in 1 .. NumRows |-> row(k - 1)]

\* The table as it is when a call starts.
Snapshot ==
    [num_rows |-> num_rows, metadata |-> metadata,
     metadata_offset |-> metadata_offset, rows |-> AllRows]

Result(op, ok, id, arg) ==
    [op |-> op, ok |-> ok, id |-> id, arg |-> arg, pre |-> Snapshot]

TableInit ==
    /\ num_rows = 0
    /\ metadata = <<>>
    /\ metadata_offset = <<0>>
    /\ log = <<>>
    /\ cleared = FALSE
    /\ ret = Result("default", TRUE, 0, 0)
    /\ iters = [i \in Iters |-> DeadIter]
    /\ overflow_checks \in BOOLEAN
    /\ panicked = FALSE

\* tsk_population_table_add_row(table, bytes, len): append at num_rows.
StoreRow_id_after_increment(bytes, has, op, arg) ==
    /\ metadata' = metadata \o bytes
    /\ metadata_offset' = Append(metadata_offset, Len(metadata) + Len(bytes))
    /\ num_rows' = num_rows + 1
    /\ log' = Append(log, [has |-> has, m |-> arg, id |-> num_rows + 1])
    /\ ret' = Result(op, TRUE, num_rows + 1, arg)

StoreRow(bytes, has, op, arg) ==
    /\ metadata' = metadata \o bytes
    /\ metadata_offset' = Append(metadata_offset, Len(metadata) + Len(bytes))
    /\ num_rows' = num_rows + 1
    /\ log' = Append(log, [has |-> has, m |-> arg, id |-> num_rows])
    /\ ret' = Result(op, TRUE, num_rows, arg)

\* A call that fails leaves the storage as it was.
FailCall(op, arg) ==
    /\ ret' = Result(op, FALSE, 0, arg)
    /\ UNCHANGED <<num_rows, metadata, metadata_offset, log>>

AddRow ==
    /\ ~panicked /\ NoBorrow
    /\ num_rows < MaxRows
    /\ \E alloc_ok \in BOOLEAN :
         IF alloc_ok
         THEN StoreRow(<<>>, FALSE, "add_row", 0)
         ELSE FailCall("add_row", 0)
    /\ UNCHANGED <<cleared, iters, overflow_checks, panicked, fvars>>

\* The row is stored before the metadata is encoded.
AddRowWithMetadata_store_first(m) ==
    /\ ~panicked /\ NoBorrow
    /\ num_rows < MaxRows
    /\ LET md == Encode(m)
       IN  IF ~md.ok
           THEN /\ metadata' = metadata
                /\ metadata_offset' = Append(metadata_offset, Len(metadata))
                /\ num_rows' = num_rows + 1
                /\ log' = Append(log, [has |-> FALSE, m |-> 0,
                                       id |-> num_rows])
                /\ ret' = Result("add_row_with_metadata", FALSE, 0, m)
           ELSE \E alloc_ok \in BOOLEAN :
                  IF alloc_ok
                  THEN StoreRow(md.val, TRUE, "add_row_with_metadata", m)
                  ELSE FailCall("add_row_with_metadata", m)
    /\ UNCHANGED <<cleared, iters, overflow_checks, panicked, fvars>>

AddRowWithMetadata(m) ==
    /\ ~panicked /\ NoBorrow
    /\ num_rows < MaxRows
    /\ LET md == Encode(m)
       IN  IF ~md.ok
           THEN FailCall("add_row_with_metadata", m)
           ELSE \E alloc_ok \in BOOLEAN :
                  IF alloc_ok
                  THEN StoreRow(md.val, TRUE, "add_row_with_metadata", m)
                  ELSE FailCall("add_row_with_metadata", m)
    /\ UNCHANGED <<cleared, iters, overflow_checks, panicked, fvars>>

\* ------------------------------------------------------------- flags
NONE == 0
FILTER_SITES == 1
FILTER_POPULATIONS == 2
FILTER_INDIVIDUALS == 4
REDUCE_TO_SITE_TOPOLOGY == 8
KEEP_UNARY == 16
KEEP_INPUT_ROOTS == 32
KEEP_UNARY_IN_INDIVIDUALS == 64
CLEAR_METADATA_SCHEMAS == 1
CLEAR_TS_METADATA_SCHEMAS == 2
CLEAR_PROVENANCE == 4
IS_SAMPLE == 1

RawFlags == 0 .. (Pow2(FlagBits) - 1)

RECURSIVE BitAnd(_, _)
BitAnd(x, y) ==
    IF x = 0 \/ y = 0 THEN 0
    ELSE (x % 2) * (y % 2) + 2 * BitAnd(x \div 2, y \div 2)

RECURSIVE BitOr(_, _)
BitOr(x, y) ==
    IF x = 0 THEN y
    ELSE IF y = 0 THEN x
    ELSE (IF x % 2 = 1 \/ y % 2 = 1 THEN 1 ELSE 0)
         + 2 * BitOr(x \div 2, y \div 2)

FlagTypes == {"SimplificationOptions", "TableClearOptions", "NodeFlags",
              "IndividualFlags"}
OpenTypes == {"NodeFlags", "IndividualFlags"}

\* The named constants of each bitflags! type.
Named(t) ==
    CASE t = "SimplificationOptions" ->
           {NONE, FILTER_SITES, FILTER_POPULATIONS, FILTER_INDIVIDUALS,
            REDUCE_TO_SITE_TOPOLOGY, KEEP_UNARY, KEEP_INPUT_ROOTS,
            KEEP_UNARY_IN_INDIVIDUALS}
      [] t = "TableClearOptions" ->
           {NONE, CLEAR_METADATA_SCHEMAS, CLEAR_TS_METADATA_SCHEMAS,
            CLEAR_PROVENANCE}
      [] t = "NodeFlags" -> {NONE, IS_SAMPLE}
      [] t = "IndividualFlags" -> {NONE}
      [] OTHER -> {}

\* bitflags: the operations every flag type gets.
default_bits == 0
contains(a, b) == BitAnd(a, b) = b
union(a, b) == BitOr(a, b)
insert_set(a, b) == b
insert(a, b) == BitOr(a, b)

RECURSIVE all_bits(_)
all_bits(S) ==
    IF S = {} THEN 0
    ELSE LET c == CHOOSE c \in S : TRUE IN BitOr(c, all_bits(S \ {c}))

from_bits_truncate(t, flags) == BitAnd(flags, all_bits(Named(t)))
\* From<RawFlags> for NodeFlags / IndividualFlags
from_bits_unchecked(t, flags) == flags

new_sample == IS_SAMPLE
is_valid(f) == TRUE
is_sample(f) == contains(f, IS_SAMPLE)

\* The values a caller builds from the named constants in one expression.
Operand(t) == {union(x, y) : x \in Named(t), y \in Named(t)}

ClearOptionValues ==
    {union(x, union(y, z)) : x \in Named("TableClearOptions"),
                             y \in Named("TableClearOptions"),
                             z \in Named("TableClearOptions")}

\* No flag value is in scope.
NoFlags == [type |-> "none", bits |-> default_bits, op |-> "none"]

FlagsInit ==
    /\ fobj = NoFlags
    /\ operands = {}
    /\ raw = None

\* ------------------------------------------------------- table, cont.
\* OwnedPopulationTable::clear: tsk_population_table_clear truncates to zero
\* rows; the option bits only act on schemas and provenance.
Clear(options) ==
    /\ ~panicked /\ NoBorrow
    /\ num_rows' = 0
    /\ metadata' = <<>>
    /\ metadata_offset' = <<0>>
    /\ log' = <<>>
    /\ cleared' = TRUE
    /\ ret' = Result("clear", TRUE, 0, options)
    /\ UNCHANGED <<iters, overflow_checks, panicked, fvars>>

\* PopulationTable::iter: make_table_iterator, TableIterator {table, pos: 0}
Iter(i) ==
    /\ ~panicked
    /\ ~iters[i].live
    /\ iters' = [iters EXCEPT ![i] = FreshIter]
    /\ UNCHANGED <<num_rows, metadata, metadata_offset, log, cleared, ret,
                   overflow_checks, panicked, fvars>>

\* The iterator goes out of scope and the borrow of the table ends.
DropIter(i) ==
    /\ ~panicked
    /\ iters[i].live
    /\ iters' = [iters EXCEPT ![i] = DeadIter]
    /\ UNCHANGED <<num_rows, metadata, metadata_offset, log, cleared, ret,
                   overflow_checks, panicked, fvars>>

\* i32 `+ 1` in a build without overflow checks.
wrapping_add1(pos) == IF pos = TskIdMax THEN TskIdMin ELSE pos + 1

next_early(pos) == [rv |-> make_population_table_row(pos + 1)]
\* let rv = make_population_table_row(self.table, self.pos)
next(pos) == [rv |-> make_population_table_row(pos)]

\* Iterator::next, with `self.pos += 1` after the row is made.
IterNext(i) ==
    /\ ~panicked
    /\ iters[i].live
    /\ LET it == iters[i]
           rv == next(it.pos).rv
       IN  IF it.pos = TskIdMax /\ overflow_checks
           THEN /\ panicked' = TRUE
                /\ UNCHANGED iters
           ELSE /\ iters' = [iters EXCEPT ![i] =
                      [live |-> TRUE,
                       pos |-> wrapping_add1(it.pos),
                       out |-> IF rv.some /\ ~it.exhausted
                               THEN Append(it.out, rv.val) ELSE it.out,
                       exhausted |-> it.exhausted \/ ~rv.some,
                       last |-> rv]]
                /\ UNCHANGED panicked
    /\ UNCHANGED <<num_rows, metadata, metadata_offset, log, cleared, ret,
                   overflow_checks, fvars>>

Init == TableInit /\ FlagsInit

Next ==
    \/ AddRow
    \/ \E m \in MetaValues : AddRowWithMetadata(m)
    \/ \E options \in ClearOptionValues : Clear(options)
    \/ \E i \in Iters : Iter(i)
    \/ \E i \in Iters : IterNext(i)
    \/ \E i \in Iters : DropIter(i)

Spec == Init /\ [][Next]_vars

\* ------------------------------------------------------- flag machine
\* T::default() (#[derive(Default)])
FlagsDefault(t) ==
    /\ fobj = NoFlags
    /\ fobj' = [type |-> t, bits |-> default_bits, op |-> "default"]
    /\ operands' = {}
    /\ raw' = None
    /\ UNCHANGED tvars

\* T::C for a named constant C
FlagsConst(t, c) ==
    /\ fobj = NoFlags
    /\ fobj' = [type |-> t, bits |-> c, op |-> "const"]
    /\ operands' = {c}
    /\ raw' = None
    /\ UNCHANGED tvars

\* NodeFlags::new_sample()
NewSample ==
    /\ fobj = NoFlags
    /\ fobj' = [type |-> "NodeFlags", bits |-> new_sample,
                op |-> "new_sample"]
    /\ operands' = {IS_SAMPLE}
    /\ raw' = None
    /\ UNCHANGED tvars

\* flags.insert(b)
FlagsInsert(b) ==
    /\ fobj.type \in FlagTypes
    /\ Cardinality(operands \cup {b}) <= MaxOperands
    /\ fobj' = [fobj EXCEPT !.bits = insert(fobj.bits, b), !.op = "insert"]
    /\ operands' = operands \cup {b}
    /\ raw' = None
    /\ UNCHANGED tvars

\* flags | b
FlagsUnion(b) ==
    /\ fobj.type \in FlagTypes
    /\ Cardinality(operands \cup {b}) <= MaxOperands
    /\ fobj' = [fobj EXCEPT !.bits = union(fobj.bits, b), !.op = "union"]
    /\ operands' = operands \cup {b}
    /\ raw' = None
    /\ UNCHANGED tvars

\* NodeFlags::from(r), IndividualFlags::from(r)
FlagsFrom(t, r) ==
    /\ fobj = NoFlags
    /\ fobj' = [type |-> t, bits |-> from_bits_unchecked(t, r),
                op |-> "from"]
    /\ operands' = {r}
    /\ raw' = Some(r)
    /\ UNCHANGED tvars

\* The flag value goes out of scope.
FlagsDiscard ==
    /\ fobj # NoFlags
    /\ fobj' = NoFlags
    /\ operands' = {}
    /\ raw' = None
    /\ UNCHANGED tvars

NextFlags ==
    \/ \E t \in FlagTypes : FlagsDefault(t)
    \/ \E t \in FlagTypes : \E c \in Named(t) : FlagsConst(t, c)
    \/ NewSample
    \/ \E b \in Operand(fobj.type) : FlagsInsert(b)
    \/ \E b \in Operand(fobj.type) : FlagsUnion(b)
    \/ \E t \in OpenTypes : \E r \in RawFlags : FlagsFrom(t, r)
    \/ FlagsDiscard

SpecFlags == Init /\ [][NextFlags]_vars

\* ============================================================ claims
InRange(k) == 0 <= k /\ k < NumRows
Adds == {"add_row", "add_row_with_metadata"}
\* The bytes row k was inserted with (none for add_row).
InsertedBytes(k) ==
    IF log[k + 1].has THEN Encode(log[k + 1].m).val ELSE <<>>

\* C1: a successful add_row / add_row_with_metadata on a table of N rows
\* returns id N and leaves num_rows = N + 1; the ids returned since the table
\* was last empty are 0, 1, ..., n-1 in call order and num_rows() = n.
C1_AddRowReturnsNextId ==
    /\ (ret.op \in Adds /\ ret.ok) =>
         /\ ret.id = ret.pre.num_rows
         /\ NumRows = ret.pre.num_rows + 1
    /\ NumRows = Len(log)
    /\ \A k \in 1 .. Len(log) : log[k].id = k - 1

C1_Witness ==
    /\ cleared
    /\ ret.op = "add_row_with_metadata" /\ ret.ok /\ ret.id = 1
    /\ log[1].id = 0 /\ NumRows = 2

\* C2: row(id) is None for every id < 0 and every id >= num_rows(), and
\* Some(row) with row.id = id for every 0 <= id < num_rows().
C2_RowInRangeOnly ==
    \A id \in TskId :
        IF InRange(id)
        THEN row(id).some /\ row(id).val.id = id
        ELSE row(id) = None

C2_Witness ==
    /\ NumRows = 2
    /\ row(1).some /\ row(1).val.id = 1
    /\ row(2) = None /\ row(0 - 1) = None

\* C3: every iterator, whatever another iterator on the table has consumed,
\* starts at id 0 and yields row(0), row(1), ... in ascending id order, the
\* i-th item equal to row(i); it has yielded exactly num_rows() items when
\* it first returns an absent result.
C3_IterYieldsRowsInOrder ==
    \A i \in Iters :
        (iters[i].live /\ ~panicked) =>
            /\ Len(iters[i].out) <= NumRows
            /\ \A k \in 1 .. Len(iters[i].out) :
                   /\ Some(iters[i].out[k]) = row(k - 1)
                   /\ iters[i].out[k].id = k - 1
            /\ ~iters[i].exhausted => iters[i].pos = Len(iters[i].out)
            /\ iters[i].exhausted => Len(iters[i].out) = NumRows

C3_Witness ==
    /\ iters[1].live /\ iters[1].pos = 1 /\ Len(iters[1].out) = 1
    /\ iters[2].live /\ iters[2].exhausted /\ Len(iters[2].out) = 2

\* C4: clear(options) succeeds for every options value and every prior
\* table, and leaves num_rows() = 0, row(0) = None and iter() yielding no
\* rows; the first row added after a clear gets id 0.
C4_ClearEmptiesTable ==
    /\ ret.op = "clear" =>
         /\ ret.ok
         /\ NumRows = 0
         /\ row(0) = None
         /\ \A i \in Iters :
                iters[i].live =>
                    iters[i].out = <<>> /\ iters[i].last = None
    /\ (cleared /\ Len(log) > 0) => (log[1].id = 0 /\ row(0).some)

C4_Witness ==
    /\ ret.op = "clear"
    /\ ret.pre.num_rows = 2
    /\ ret.arg = union(CLEAR_METADATA_SCHEMAS, CLEAR_PROVENANCE)
    /\ iters[1].live /\ iters[1].exhausted

C6_EncodeFailureLeavesTable ==
    (ret.op = "add_row_with_metadata" /\ ~Encode(ret.arg).ok) =>
        /\ ~ret.ok
        /\ num_rows = ret.pre.num_rows
        /\ metadata = ret.pre.metadata
        /\ metadata_offset = ret.pre.metadata_offset
        /\ AllRows = ret.pre.rows

C6_Witness ==
    /\ ret.op = "add_row_with_metadata" /\ ~Encode(ret.arg).ok /\ ~ret.ok
    /\ NumRows = 1 /\ log[1].has /\ row(0).val.metadata # None

\* C7: a | NONE = a; the default value is NONE; every inserted b is
\* contained and stays contained; a value holds a named bit only if one of
\* the operands it was built from did.
C7_FlagAlgebra ==
    /\ default_bits = NONE
    /\ ~contains(union(FILTER_SITES, KEEP_UNARY), FILTER_POPULATIONS)
    /\ fobj.type \in FlagTypes =>
         /\ union(fobj.bits, NONE) = fobj.bits
         /\ fobj.op = "default" => fobj.bits = NONE
         /\ \A b \in operands : contains(fobj.bits, b)
         /\ \A n \in Named(fobj.type) \ {NONE} :
                contains(fobj.bits, n) =>
                    \E o \in operands : contains(o, n)

C7_Witness ==
    /\ fobj.type = "SimplificationOptions" /\ fobj.op = "insert"
    /\ operands = {KEEP_UNARY, FILTER_POPULATIONS, FILTER_SITES}
    /\ contains(fobj.bits, KEEP_UNARY)
    /\ ~contains(fobj.bits, KEEP_INPUT_ROOTS)

\* C8: NodeFlags::from(r) and IndividualFlags::from(r) keep exactly the bits
\* of r, is_valid() is true, and a NodeFlags is_sample() exactly when the
\* IS_SAMPLE bit of r is set; new_sample() is a sample, the default is not.
C8_FromKeepsRawBits ==
    /\ raw.some =>
         /\ fobj.bits = raw.val
         /\ is_valid(fobj.bits)
         /\ fobj.type = "NodeFlags" =>
              (is_sample(fobj.bits) <=> (raw.val \div IS_SAMPLE) % 2 = 1)
    /\ fobj.op = "new_sample" => is_sample(fobj.bits)
    /\ (fobj.op = "default" /\ fobj.type = "NodeFlags") =>
         ~is_sample(fobj.bits)

C8_Witness ==
    /\ fobj.op = "from" /\ fobj.type = "NodeFlags"
    /\ raw = Some(Pow2(FlagBits) - 1)
    /\ is_sample(fobj.bits)

C10_AbsentForEver ==
    /\ ~panicked
    /\ \A i \in Iters :
         (iters[i].live /\ iters[i].exhausted) => iters[i].last = None

====
